---- MODULE Spec2Model ----
(***************************************************************************)
(* Model of the tool-calling orchestration loop of the weather MCP client  *)
(* (src/weather-mcp-client/client.py, MCPClient.process_query).            *)
(*                                                                         *)
(* Python strings that the code trims, joins or formats are sequences of   *)
(* atoms (single characters or indivisible pieces of text), so that        *)
(* str.strip and str.join are computed and not assumed.  Strings that the  *)
(* code only passes along (ids, tool names, raw argument strings) are TLA+ *)
(* strings.  An optional Python value is None or Some(v).                  *)
(***************************************************************************)
EXTENDS Integers, Sequences, FiniteSets, TLC

\* ------------------------------------------------------------------ bounds
\* Completion turns a query may run in the safety specification Spec.
MaxTurns == 2

\* The longest tool list drawn for the catalog adapter.
MaxTools == 2

\* The input lines chat_loop reads before its input ends.
MaxLines == 2

\* The turns of a query of chat_loop in which the endpoint may ask for tools.
MaxShellTurns == 1

\* The turns of a query in which the endpoint may ask for tools when the
\* arguments and the tool results are drawn widely.
MaxToolTurns == 1

\* The most forecast periods the weather provider answers with.
MaxPeriods == 6

\* ------------------------------------------------------- Python primitives
None == [some |-> FALSE]
Some(x) == [some |-> TRUE, v |-> x]

\* `x or default` on an optional string: None and the empty string are falsy.
OrElse(x, empty, default) == IF x = None \/ x.v = empty THEN default ELSE x.v

IsSpace(a) == a \in {" ", "\n"}

RECURSIVE LStrip(_)
LStrip(s) == IF s # <<>> /\ IsSpace(Head(s)) THEN LStrip(Tail(s)) ELSE s

RECURSIVE RStrip(_)
RStrip(s) == IF s # <<>> /\ IsSpace(s[Len(s)]) THEN RStrip(SubSeq(s, 1, Len(s) - 1)) ELSE s

\* A mutant of Strip: trims the left side only.
StripLeftOnly(s) == LStrip(s)

\* str.strip()
Strip(s) == RStrip(LStrip(s))

\* sep.join(parts)
RECURSIVE Join(_, _)
Join(sep, parts) ==
    IF parts = <<>> THEN <<>>
    ELSE IF Len(parts) = 1 THEN parts[1]
    ELSE parts[1] \o sep \o Join(sep, Tail(parts))

NonEmpty(chunk) == chunk # <<>>

\* json.loads on the argument strings the endpoint may send: the parsed value,
\* or a JSONDecodeError.  A dict is its sequence of key/value pairs.
JsonLoads(s) ==
    CASE s = "{}"           -> [ok |-> TRUE, type |-> "dict", items |-> <<>>]
      [] s = "{\"x\": 1}"   -> [ok |-> TRUE, type |-> "dict", items |-> << <<"x", 1>> >>]
      [] s = "[1]"          -> [ok |-> TRUE, type |-> "list", items |-> <<1>>]
      [] s = "{not json"    -> [ok |-> FALSE]
      [] s = ""             -> [ok |-> FALSE]
      [] OTHER              -> [ok |-> FALSE]

\* str(value) of a parsed value, as the f-string of the summary prints it.
PyStr(value) ==
    CASE value.type = "dict" /\ value.items = <<>>             -> "{}"
      [] value.type = "dict" /\ value.items = << <<"x", 1>> >> -> "{'x': 1}"
      [] value.type = "list"                                   -> "[1]"
      [] OTHER                                                 -> "?"

\* ----------------------------------------------------------- tool catalog
\* What _schema_to_dict returns when it cannot read a schema.
EmptyParameters == [type |-> "object", properties |-> <<>>]

\* Tool.inputSchema comes as None, a dict, an object with model_dump(), an
\* object with dict(), an object with public attributes, or something else.
\* k.startswith("_") on the attribute names that occur.
StartsWithUnderscore(k) == k \in {"_cache", "_abc_impl"}

\* A mutant of _schema_to_dict: a missing schema becomes an object schema
\* without a properties entry.
_schema_to_dict_bare(schema) ==
    IF schema = None THEN [type |-> "object"]
    ELSE IF schema.v.kind \in {"dict", "model_dump", "dict_method", "attrs"}
         THEN schema.v.value
    ELSE EmptyParameters

_schema_to_dict(schema) ==
    IF schema = None THEN EmptyParameters
    ELSE IF schema.v.kind = "dict" THEN schema.v.value
    ELSE IF schema.v.kind = "model_dump" THEN schema.v.value
    ELSE IF schema.v.kind = "dict_method" THEN schema.v.value
    ELSE IF schema.v.kind = "attrs"
         THEN [k \in {a \in DOMAIN schema.v.value : ~StartsWithUnderscore(a)} |->
                  schema.v.value[k]]
    ELSE EmptyParameters

ValuesSchema == [type |-> "object", properties |-> <<"values">>]

AddNumbers == [name |-> "add_numbers", description |-> Some("Add numbers"),
               inputSchema |-> Some([kind |-> "dict", value |-> ValuesSchema])]

GetForecast == [name |-> "get_forecast", description |-> None, inputSchema |-> None]

\* The tool lists the session may answer list_tools with.
Catalogs == {<<>>, <<AddNumbers, GetForecast>>}

\* The input schemas drawn for the catalog adapter: missing; dicts that do
\* and do not describe an object; objects read through model_dump(), dict()
\* or their public attributes; a str, which is none of these.
StringSchema == [type |-> "string"]

InputSchemas ==
    {None,
     Some([kind |-> "dict", value |-> ValuesSchema]),
     Some([kind |-> "dict", value |-> StringSchema]),
     Some([kind |-> "dict", value |-> [title |-> "Args"]]),
     Some([kind |-> "model_dump", value |-> ValuesSchema]),
     Some([kind |-> "dict_method", value |-> StringSchema]),
     Some([kind |-> "attrs",
           value |-> [type |-> "object", properties |-> <<"values">>, _cache |-> 1]]),
     Some([kind |-> "other", value |-> [str |-> "object"]])}

ToolNames == <<"add_numbers", "get_forecast", "get_alerts", "subtract">>

\* Tool lists of up to MaxTools tools, each with one of the input schemas.
AdapterCatalogs ==
    {[i \in 1..Len(schemas) |->
         [name |-> ToolNames[i],
          description |-> IF i = 1 THEN Some("Add numbers") ELSE None,
          inputSchema |-> schemas[i]]] :
        schemas \in UNION {[1..n -> InputSchemas] : n \in 0..MaxTools}}

\* One callable-function declaration.
Declaration(tool) ==
    [type |-> "function",
     function |-> [name |-> tool.name,
                   description |-> OrElse(tool.description, "", ""),
                   parameters |-> _schema_to_dict(tool.inputSchema)]]

\* available_tools: one declaration per listed tool, in catalog order.
AvailableTools(tools) == [i \in 1..Len(tools) |-> Declaration(tools[i])]

\* ---------------------------------------------------- completion endpoint
ToolCall(id, name, args) ==
    [id |-> id, type |-> "function", function |-> [name |-> name, arguments |-> args]]

CallA == ToolCall("call_a", "add_numbers", Some("{\"x\": 1}"))
CallB == ToolCall("call_b", "get_forecast", Some("{}"))
\* repeats the id of CallA and carries no arguments
CallA2 == ToolCall("call_a", "get_forecast", None)
CallBad == ToolCall("call_c", "add_numbers", Some("{not json"))

\* message.tool_calls of a completion: None, or a list of tool calls.
ToolCallLists ==
    {None, Some(<<>>), Some(<<CallA>>), Some(<<CallA, CallB>>), Some(<<CallA, CallA2>>),
     Some(<<CallBad>>), Some(<<CallA, CallBad>>), Some(<<CallBad, CallB>>)}

\* message.content of a completion: None or text.
Contents == {None, Some(<<" ">>), Some(<<" ", "a", " ">>)}

\* The messages the completion endpoint may answer with: any content without
\* tool calls; missing content or text with tool calls.
Completions ==
    {m \in [content : Contents, tool_calls : ToolCallLists] :
        m.tool_calls \in {None, Some(<<>>)} \/ m.content # Some(<<" ">>)}

\* ------------------------------------------------------------ tool session
TextItem(t) == [type |-> "text", text |-> t, repr |-> <<"TextContent">>]
ImageItem == [type |-> "image", text |-> None, repr |-> <<"ImageContent">>]

\* result.content of a tool call that returned.
ToolContents ==
    {Some(<<TextItem(Some(<<>>))>>),
     Some(<<TextItem(Some(<<" ", "7">>)), TextItem(Some(<<"ok", " ">>))>>)}

\* parts of _flatten_tool_content, before the join
RECURSIVE FlattenParts(_)
FlattenParts(content) ==
    IF content = <<>> THEN <<>>
    ELSE LET item == Head(content)
             rest == FlattenParts(Tail(content))
         IN IF item.type = "text"
            THEN IF item.text # None /\ item.text.v # <<>>
                 THEN <<item.text.v>> \o rest
                 ELSE rest
            ELSE <<item.repr>> \o rest

\* A mutant of _flatten_tool_content: the joined parts are not stripped.
_flatten_tool_content_unstripped(content) ==
    IF content = None \/ content.v = <<>> THEN <<>>
    ELSE Join(<<"\n">>, SelectSeq(FlattenParts(content.v), NonEmpty))

_flatten_tool_content(content) ==
    IF content = None \/ content.v = <<>> THEN <<>>
    ELSE Strip(Join(<<"\n">>, SelectSeq(FlattenParts(content.v), NonEmpty)))

\* ------------------------------------------------------------------- state
VARIABLES
    session,          \* MCPClient.session: None or the connected session
    llm,              \* MCPClient.llm: the completion-endpoint handle
    catalog,          \* the tools the session lists
    query,            \* the argument of process_query
    pc,               \* where process_query is
    error,            \* the exception that left process_query, or "none"
    result_text,      \* the value process_query returned
    available_tools,  \* the declaration list of this query
    messages,         \* the transcript
    final_chunks,     \* the output buffer
    turn_index,
    tool_calls,       \* the tool calls of the turn being worked on
    call_idx,         \* position of the for loop in tool_calls
    arguments,        \* the parsed arguments of the call in flight
    listed,           \* observer: list_tools calls made by process_query
    requests,         \* observer: the request payloads sent to the endpoint
    responses,        \* observer: the messages the endpoint answered with
    invoked,          \* observer: the call_tool invocations made
    returned,         \* observer: the result.content call_tool returned, in order
    shell,            \* the runner of main and chat_loop around process_query
    wx                \* one run of a weather forecast tool

ctlVars == <<session, llm, catalog, query, pc, error, tool_calls, call_idx, arguments>>
dataVars == <<result_text, available_tools, messages, final_chunks, turn_index,
              listed, requests, responses, invoked, returned>>
\* what process_query does not touch
otherVars == <<shell, wx>>
vars == <<ctlVars, dataVars, otherVars>>

Queries == {<<"2", "+", "2", "?">>}

\* The runner when process_query is called on its own.
NoShell ==
    [pc |-> "direct",      \* where the runner is
     connects |-> 0,       \* observer: connect_to_server calls
     cleanups |-> 0,       \* observer: cleanup calls
     entered |-> FALSE,    \* observer: chat_loop was entered
     read |-> <<>>,        \* observer: what input() returned, None at end of input
     calls |-> 0,          \* observer: process_query calls
     logged |-> 0,         \* observer: exceptions logged by chat_loop
     shown |-> 0,          \* observer: responses logged by chat_loop
     declared |-> None,    \* observer: the declaration list of the query before
     transcript |-> <<>>,  \* observer: the transcript the query before ended with
     buffer |-> <<>>,      \* observer: the output buffer the query before ended with
     ended |-> "none",     \* observer: how the query before ended
     loop |-> "none",      \* how chat_loop ended
     raised |-> "none",    \* the exception on its way out of the runner
     outcome |-> "none"]   \* what the caller of the runner got

\* No weather tool is running.
NoWeather ==
    [pc |-> "idle",        \* where the tool is
     tool |-> "none",      \* the tool called
     coords |-> <<0, 0>>,  \* its latitude and longitude
     fetched |-> <<>>,     \* observer: the provider requests made and their answers
     result |-> <<>>,      \* what the tool returned
     raised |-> "none"]    \* the exception that left the tool

\* process_query is called once, on a client with or without a session.
Init ==
    /\ shell = NoShell
    /\ wx = NoWeather
    /\ session \in {None, Some("session")}
    /\ llm = "endpoint"
    /\ catalog \in Catalogs
    /\ query \in Queries
    /\ pc = "idle"
    /\ error = "none"
    /\ result_text = <<>>
    /\ available_tools = <<>>
    /\ messages = <<>>
    /\ final_chunks = <<>>
    /\ turn_index = 0
    /\ tool_calls = <<>>
    /\ call_idx = 0
    /\ arguments = None
    /\ listed = 0
    /\ requests = <<>>
    /\ responses = <<>>
    /\ invoked = <<>>
    /\ returned = <<>>

\* ------------------------------------------------- pieces of process_query
\* A mutant of Connected: the check for a missing session is left out.
ConnectedUnchecked(s) == TRUE

\* `self.session is None` does not hold
Connected(s) == s # None

UserMessage(q) == [role |-> "user", content |-> q]

\* A mutant of RequestKwargs: tool_choice is always sent.
RequestKwargsAlwaysChoice(msgs, tools) ==
    IF tools # <<>>
    THEN [model |-> "model", messages |-> msgs, tools |-> tools, tool_choice |-> "auto"]
    ELSE [model |-> "model", messages |-> msgs, tool_choice |-> "auto"]

\* request_kwargs: tools and tool_choice only with a non-empty declaration list
RequestKwargs(msgs, tools) ==
    IF tools # <<>>
    THEN [model |-> "model", messages |-> msgs, tools |-> tools, tool_choice |-> "auto"]
    ELSE [model |-> "model", messages |-> msgs]

\* A mutant of RecordedCall: id and name change places.
RecordedCallSwapped(tool_call) ==
    [id |-> tool_call.function.name,
     type |-> tool_call.type,
     function |-> [name |-> tool_call.id, arguments |-> tool_call.function.arguments]]

\* the entry of assistant_message["tool_calls"] for one tool call
RecordedCall(tool_call) ==
    [id |-> tool_call.id,
     type |-> tool_call.type,
     function |-> [name |-> tool_call.function.name,
                   arguments |-> tool_call.function.arguments]]

AssistantMessage(content_text, tcs) ==
    [role |-> "assistant", content |-> content_text,
     tool_calls |-> [i \in 1..Len(tcs) |-> RecordedCall(tcs[i])]]

\* A mutant of CurrentCall: the for loop walks the tool calls backwards.
CurrentCallReversed(tcs, i) == tcs[Len(tcs) + 1 - i]

\* the tool call the for loop is at
CurrentCall(tcs, i) == tcs[i]

\* A mutant of Summary: the arguments are left out.
SummaryWithoutArguments(tool_name, args) == <<"[Tool ", tool_name, " called]">>

\* f"[Tool {tool_name} called with args {arguments}]"
Summary(tool_name, args) ==
    <<"[Tool ", tool_name, " called with args ", PyStr(args), "]">>

NoOutput == <<"(no output)">>

\* A mutant of ToolMessage: the result carries the tool's name as its id.
ToolMessageNameAsId(tool_call, tool_output) ==
    [role |-> "tool",
     tool_call_id |-> tool_call.function.name,
     name |-> tool_call.function.name,
     content |-> IF tool_output # <<>> THEN tool_output ELSE NoOutput]

\* the tool-result message appended for one call
ToolMessage(tool_call, tool_output) ==
    [role |-> "tool",
     tool_call_id |-> tool_call.id,
     name |-> tool_call.function.name,
     content |-> IF tool_output # <<>> THEN tool_output ELSE NoOutput]

\* "\n".join(chunk for chunk in final_chunks if chunk)
ResultText(chunks) == Join(<<"\n">>, SelectSeq(chunks, NonEmpty))

\* A mutant of ProcessQuery: transcript and output buffer are kept on the
\* client and carried into the next query.
ProcessQueryKeepsHistory ==
    /\ pc = "idle"
    /\ IF ~Connected(session)
       THEN /\ pc' = "failed"
            /\ error' = "RuntimeError"
            /\ UNCHANGED dataVars
       ELSE /\ listed' = listed + 1
            /\ \/ /\ pc' = "failed"
                  /\ error' = "ListToolsError"
                  /\ UNCHANGED <<available_tools, messages, final_chunks, turn_index>>
               \/ /\ pc' = "request"
                  /\ error' = error
                  /\ available_tools' = AvailableTools(catalog)
                  /\ messages' = Append(shell.transcript, UserMessage(query))
                  /\ final_chunks' = shell.buffer
                  /\ turn_index' = 1
            /\ UNCHANGED <<result_text, requests, responses, invoked, returned>>
    /\ UNCHANGED <<session, llm, catalog, query, tool_calls, call_idx, arguments>>
    /\ UNCHANGED otherVars

\* A mutant of ProcessQuery: the tools are listed for the first query only
\* and its declaration list is kept for the later ones.
ProcessQueryCachedDeclarations ==
    /\ pc = "idle"
    /\ IF ~Connected(session)
       THEN /\ pc' = "failed"
            /\ error' = "RuntimeError"
            /\ UNCHANGED dataVars
       ELSE /\ listed' = IF shell.declared = None THEN listed + 1 ELSE listed
            /\ \/ /\ pc' = "failed"
                  /\ error' = "ListToolsError"
                  /\ UNCHANGED <<available_tools, messages, final_chunks, turn_index>>
               \/ /\ pc' = "request"
                  /\ error' = error
                  /\ available_tools' = IF shell.declared = None
                                        THEN AvailableTools(catalog)
                                        ELSE shell.declared.v
                  /\ messages' = <<UserMessage(query)>>
                  /\ final_chunks' = <<>>
                  /\ turn_index' = 1
            /\ UNCHANGED <<result_text, requests, responses, invoked, returned>>
    /\ UNCHANGED <<session, llm, catalog, query, tool_calls, call_idx, arguments>>
    /\ UNCHANGED otherVars


\* ----------------------------------------------------------------- actions
\* process_query up to the turn loop: the session check, list_tools (which
\* may raise), the declaration list, the transcript and the output buffer.
ProcessQuery ==
    /\ pc = "idle"
    /\ IF ~Connected(session)
       THEN /\ pc' = "failed"
            /\ error' = "RuntimeError"
            /\ UNCHANGED dataVars
       ELSE /\ listed' = listed + 1
            /\ \/ /\ pc' = "failed"
                  /\ error' = "ListToolsError"
                  /\ UNCHANGED <<available_tools, messages, final_chunks, turn_index>>
               \/ /\ pc' = "request"
                  /\ error' = error
                  /\ available_tools' = AvailableTools(catalog)
                  /\ messages' = <<UserMessage(query)>>
                  /\ final_chunks' = <<>>
                  /\ turn_index' = 1
            /\ UNCHANGED <<result_text, requests, responses, invoked, returned>>
    /\ UNCHANGED <<session, llm, catalog, query, tool_calls, call_idx, arguments>>
    /\ UNCHANGED otherVars

\* Top of the turn loop: the request payload is assembled and sent.
SendRequestCtl ==
    /\ pc = "request"
    /\ pc' = "awaiting"
    /\ UNCHANGED <<session, llm, catalog, query, error, tool_calls, call_idx, arguments>>
    /\ UNCHANGED otherVars

\* A mutant of SendRequestData: only the latest messages are sent.
SendRequestDataLatestOnly ==
    /\ requests' = Append(requests,
                          RequestKwargs(IF Len(messages) > 2
                                        THEN SubSeq(messages, Len(messages) - 1, Len(messages))
                                        ELSE messages,
                                        available_tools))
    /\ UNCHANGED <<result_text, available_tools, messages, final_chunks, turn_index,
                   listed, responses, invoked, returned>>

\* request_kwargs carries the whole transcript.
SendRequestData ==
    /\ requests' = Append(requests, RequestKwargs(messages, available_tools))
    /\ UNCHANGED <<result_text, available_tools, messages, final_chunks, turn_index,
                   listed, responses, invoked, returned>>

SendRequest == SendRequestCtl /\ SendRequestData

\* The completion request raises (the endpoint is unreachable or answers with
\* an error): the exception leaves process_query.
CompletionFails ==
    /\ pc = "awaiting"
    /\ pc' = "failed"
    /\ error' = "CompletionError"
    /\ UNCHANGED <<session, llm, catalog, query, tool_calls, call_idx, arguments>>
    /\ UNCHANGED dataVars
    /\ UNCHANGED otherVars

\* A mutant of ReceiveCompletionData: the assistant message is recorded before
\* the loop looks for tool calls, so the last turn records one too.
ReceiveCompletionDataAlwaysRecords(message) ==
    LET content_text == OrElse(message.content, <<>>, <<>>)
        tcs == OrElse(message.tool_calls, <<>>, <<>>)
        chunks == IF Strip(content_text) # <<>>
                  THEN Append(final_chunks, Strip(content_text))
                  ELSE final_chunks
    IN /\ final_chunks' = chunks
       /\ responses' = Append(responses, message)
       /\ messages' = Append(messages, AssistantMessage(content_text, tcs))
       /\ result_text' = IF tcs = <<>> THEN ResultText(chunks) ELSE result_text
       /\ UNCHANGED <<available_tools, turn_index, listed, requests, invoked, returned>>

\* The endpoint answers: the content goes to the output buffer; without tool
\* calls the loop breaks and the joined buffer is returned, otherwise the
\* assistant message is recorded and the for loop starts.
ReceiveCompletionCtl(message) ==
    /\ pc = "awaiting"
    /\ LET tcs == OrElse(message.tool_calls, <<>>, <<>>)
       IN IF tcs = <<>>
          THEN /\ pc' = "done"
               /\ UNCHANGED <<tool_calls, call_idx>>
          ELSE /\ pc' = "tool_loop"
               /\ tool_calls' = tcs
               /\ call_idx' = 1
    /\ UNCHANGED <<session, llm, catalog, query, error, arguments>>
    /\ UNCHANGED otherVars

ReceiveCompletionData(message) ==
    LET content_text == OrElse(message.content, <<>>, <<>>)
        tcs == OrElse(message.tool_calls, <<>>, <<>>)
        chunks == IF Strip(content_text) # <<>>
                  THEN Append(final_chunks, Strip(content_text))
                  ELSE final_chunks
    IN /\ final_chunks' = chunks
       /\ responses' = Append(responses, message)
       /\ IF tcs = <<>>
          THEN /\ result_text' = ResultText(chunks)
               /\ UNCHANGED messages
          ELSE /\ messages' = Append(messages, AssistantMessage(content_text, tcs))
               /\ UNCHANGED result_text
       /\ UNCHANGED <<available_tools, turn_index, listed, requests, invoked, returned>>

\* In Spec the endpoint asks for tools in at most MaxTurns turns of a query.
ReceiveCompletion ==
    \E message \in Completions :
        /\ turn_index > MaxTurns => OrElse(message.tool_calls, <<>>, <<>>) = <<>>
        /\ ReceiveCompletionCtl(message)
        /\ ReceiveCompletionData(message)

\* A mutant of ParsedArguments: arguments that do not parse become {}.
ParsedArgumentsLenient(tool_call) ==
    LET parsed == JsonLoads(OrElse(tool_call.function.arguments, "", "{}"))
    IN IF parsed.ok THEN parsed ELSE JsonLoads("{}")

\* json.loads(tool_call.function.arguments or "{}")
ParsedArguments(tool_call) == JsonLoads(OrElse(tool_call.function.arguments, "", "{}"))

\* The for loop parses the arguments of the next tool call; a JSONDecodeError
\* becomes a ValueError that leaves process_query, otherwise call_tool starts.
ParseArgumentsCtl ==
    /\ pc = "tool_loop"
    /\ LET parsed == ParsedArguments(CurrentCall(tool_calls, call_idx))
       IN IF parsed.ok
          THEN /\ pc' = "calling"
               /\ arguments' = Some(parsed)
               /\ error' = error
          ELSE /\ pc' = "failed"
               /\ error' = "ValueError"
               /\ arguments' = arguments
    /\ UNCHANGED <<session, llm, catalog, query, tool_calls, call_idx>>
    /\ UNCHANGED otherVars

\* A mutant of ParseArgumentsData: the calls of a turn are all started when
\* the for loop begins (as with asyncio.gather).
ParseArgumentsDataAllAtOnce ==
    /\ invoked' = IF call_idx = 1
                  THEN invoked \o [i \in 1..Len(tool_calls) |->
                                     [turn |-> Len(responses),
                                      name |-> tool_calls[i].function.name,
                                      arguments |-> ParsedArguments(tool_calls[i])]]
                  ELSE invoked
    /\ UNCHANGED <<result_text, available_tools, messages, final_chunks, turn_index,
                   listed, requests, responses, returned>>

\* call_tool is invoked for the call whose arguments parsed.
ParseArgumentsData ==
    LET tool_call == CurrentCall(tool_calls, call_idx)
        parsed == ParsedArguments(tool_call)
    IN /\ invoked' = IF parsed.ok
                     THEN Append(invoked, [turn |-> Len(responses),
                                           name |-> tool_call.function.name,
                                           arguments |-> parsed])
                     ELSE invoked
       /\ UNCHANGED <<result_text, available_tools, messages, final_chunks, turn_index,
                      listed, requests, responses, returned>>

ParseArguments == ParseArgumentsCtl /\ ParseArgumentsData

\* A mutant of ToolRaises: the client drops its session when a tool call
\* fails.
ToolRaisesAndDisconnects ==
    /\ pc = "calling"
    /\ pc' = "failed"
    /\ error' = "ToolSessionError"
    /\ session' = None
    /\ UNCHANGED <<llm, catalog, query, tool_calls, call_idx, arguments>>
    /\ UNCHANGED dataVars
    /\ UNCHANGED otherVars

\* call_tool raises: nothing catches it in process_query.
ToolRaises ==
    /\ pc = "calling"
    /\ pc' = "failed"
    /\ error' = "ToolSessionError"
    /\ UNCHANGED <<session, llm, catalog, query, tool_calls, call_idx, arguments>>
    /\ UNCHANGED dataVars
    /\ UNCHANGED otherVars

\* A mutant of ToolReturnsCtl: the loop ends after one round of tool calls.
ToolReturnsCtlOneRound ==
    /\ pc = "calling"
    /\ IF call_idx < Len(tool_calls)
       THEN /\ call_idx' = call_idx + 1
            /\ pc' = "tool_loop"
       ELSE /\ call_idx' = call_idx
            /\ pc' = "done"
    /\ UNCHANGED <<session, llm, catalog, query, error, tool_calls, arguments>>
    /\ UNCHANGED otherVars

\* call_tool returns: summary and output go to the output buffer, the
\* tool-result message to the transcript; after the last call of the turn
\* turn_index is incremented and the loop goes back to its top.
ToolReturnsCtl ==
    /\ pc = "calling"
    /\ IF call_idx < Len(tool_calls)
       THEN /\ call_idx' = call_idx + 1
            /\ pc' = "tool_loop"
       ELSE /\ call_idx' = call_idx
            /\ pc' = "request"
    /\ UNCHANGED <<session, llm, catalog, query, error, tool_calls, arguments>>
    /\ UNCHANGED otherVars

ToolReturnsData(content) ==
    LET tool_call == CurrentCall(tool_calls, call_idx)
        tool_name == tool_call.function.name
        tool_output == _flatten_tool_content(content)
        summary == Summary(tool_name, arguments.v)
    IN /\ final_chunks' = IF tool_output # <<>>
                          THEN final_chunks \o <<summary, tool_output>>
                          ELSE Append(final_chunks, summary)
       /\ messages' = Append(messages, ToolMessage(tool_call, tool_output))
       /\ turn_index' = IF call_idx < Len(tool_calls) THEN turn_index ELSE turn_index + 1
       /\ returned' = Append(returned, content)
       /\ UNCHANGED <<result_text, available_tools, listed, requests, responses, invoked>>

ToolReturns == \E content \in ToolContents : ToolReturnsCtl /\ ToolReturnsData(content)

Next ==
    \/ ProcessQuery
    \/ SendRequest
    \/ CompletionFails
    \/ ReceiveCompletion
    \/ ParseArguments
    \/ ToolRaises
    \/ ToolReturns

Spec == Init /\ [][Next]_vars

\* ------------------------------------------------ the turn loop, unbounded
\* LiveSpec lets the endpoint ask for tools in every turn.  The loop's control
\* flow (pc, tool_calls, call_idx, arguments, error) reads neither the
\* transcript, the output buffer, turn_index nor the observers, which only
\* grow; LiveSpec leaves them as ProcessQuery set them, so that a loop that
\* never ends is a cycle of finitely many states.
\* ------------------------------------- arguments and tool results, widely
\* Tool calls with an empty arguments string and with arguments that are
\* JSON but no object.
CallEmpty == ToolCall("call_d", "get_forecast", Some(""))
CallList == ToolCall("call_e", "add_numbers", Some("[1]"))

\* What the endpoint answers with here: text or nothing without tool calls,
\* text with tool calls.
WideCompletions ==
    {[content |-> None, tool_calls |-> None],
     [content |-> Some(<<" ", "a", " ">>), tool_calls |-> None]} \cup
    {[content |-> Some(<<" ", "a", " ">>), tool_calls |-> Some(tcs)] :
        tcs \in {<<CallA, CallB>>, <<CallA2>>, <<CallEmpty>>, <<CallList>>,
                 <<CallBad, CallB>>}}

\* result.content of a tool call that returned: missing, an empty list,
\* text items without text, with empty text, with blanks only, with text,
\* and an item that is not text.
WideToolContents ==
    {None,
     Some(<<>>),
     Some(<<TextItem(None)>>),
     Some(<<TextItem(Some(<<>>))>>),
     Some(<<TextItem(Some(<<" ">>))>>),
     Some(<<TextItem(Some(<<"7">>)), ImageItem>>),
     Some(<<TextItem(Some(<<" ", "7">>)), TextItem(Some(<<"ok", " ">>))>>)}

WideReceiveCompletion ==
    \E message \in WideCompletions :
        /\ turn_index > MaxToolTurns => OrElse(message.tool_calls, <<>>, <<>>) = <<>>
        /\ ReceiveCompletionCtl(message)
        /\ ReceiveCompletionData(message)

WideToolReturns == \E content \in WideToolContents : ToolReturnsCtl /\ ToolReturnsData(content)

ToolNext ==
    \/ ProcessQuery
    \/ SendRequest
    \/ WideReceiveCompletion
    \/ ParseArguments
    \/ ToolRaises
    \/ WideToolReturns

ToolSpec == Init /\ [][ToolNext]_vars

\* ------------------------------------------------- main's runner, chat_loop
\* str.lower on the words that occur.
LowerWord(w) ==
    CASE w = "Quit" -> "quit"
      [] w = "Exit" -> "exit"
      [] w = "QUIT" -> "quit"
      [] OTHER -> w

Lower(str) == [i \in 1..Len(str) |-> LowerWord(str[i])]

\* A mutant of IsQuit: the comparison is case sensitive.
IsQuitCaseSensitive(q) == q \in {<<"quit">>, <<"exit">>}

\* query.lower() in {"quit", "exit"}
IsQuit(q) == Lower(q) \in {<<"quit">>, <<"exit">>}

\* The lines input() may return.
InputLines ==
    {<<" ">>, <<" ", "Quit", " ">>, <<"exit">>, <<" ", "hi", " ">>, <<"quit", " ", "now">>}

\* What the endpoint answers with inside chat_loop.
ShellCompletions ==
    {[content |-> Some(<<"a">>), tool_calls |-> None],
     [content |-> None, tool_calls |-> Some(<<>>)],
     [content |-> None, tool_calls |-> Some(<<CallA>>)],
     [content |-> Some(<<"a">>), tool_calls |-> Some(<<CallA, CallBad>>)]}

\* The locals and observers of process_query before it runs.
ClearedQuery ==
    /\ error' = "none"
    /\ result_text' = <<>>
    /\ available_tools' = <<>>
    /\ messages' = <<>>
    /\ final_chunks' = <<>>
    /\ turn_index' = 0
    /\ tool_calls' = <<>>
    /\ call_idx' = 0
    /\ arguments' = None
    /\ listed' = 0
    /\ requests' = <<>>
    /\ responses' = <<>>
    /\ invoked' = <<>>
    /\ returned' = <<>>

queryVars == <<query, pc, error, tool_calls, call_idx, arguments, dataVars>>

\* asyncio.run(runner()) on a new client.
ShellInit ==
    /\ shell = [NoShell EXCEPT !.pc = "start"]
    /\ wx = NoWeather
    /\ session = None
    /\ llm = "endpoint"
    /\ catalog \in Catalogs
    /\ query = <<>>
    /\ pc = "none"
    /\ error = "none"
    /\ result_text = <<>>
    /\ available_tools = <<>>
    /\ messages = <<>>
    /\ final_chunks = <<>>
    /\ turn_index = 0
    /\ tool_calls = <<>>
    /\ call_idx = 0
    /\ arguments = None
    /\ listed = 0
    /\ requests = <<>>
    /\ responses = <<>>
    /\ invoked = <<>>
    /\ returned = <<>>

\* connect_to_server returns: the session is set and chat_loop is entered.
ConnectSucceeds ==
    /\ shell.pc = "start"
    /\ session' = Some("session")
    /\ shell' = [shell EXCEPT !.pc = "reading", !.connects = @ + 1, !.entered = TRUE]
    /\ UNCHANGED <<llm, catalog, queryVars, wx>>

\* A mutant of ConnectFails: the runner has no finally clause.
ConnectFailsNoCleanup ==
    /\ shell.pc = "start"
    /\ session' \in {None, Some("session")}
    /\ shell' = [shell EXCEPT !.pc = "exited", !.connects = @ + 1,
                              !.raised = "ConnectError", !.outcome = "ConnectError"]
    /\ UNCHANGED <<llm, catalog, queryVars, wx>>

\* connect_to_server raises, before self.session is assigned (a script that
\* is neither .py nor .js, headers that are not a JSON object, a transport
\* that does not open) or after it (initialize or list_tools fails): the
\* exception leaves the try block and the finally clause runs.
ConnectFails ==
    /\ shell.pc = "start"
    /\ session' \in {None, Some("session")}
    /\ shell' = [shell EXCEPT !.pc = "cleanup", !.connects = @ + 1,
                              !.raised = "ConnectError"]
    /\ UNCHANGED <<llm, catalog, queryVars, wx>>

\* One pass of the while loop of chat_loop up to the call of process_query:
\* end of input or quit/exit break, an empty line continues, any other line
\* is passed, stripped, to process_query.
ChatRead ==
    /\ shell.pc = "reading"
    /\ \E inp \in {None} \cup {Some(line) : line \in InputLines} :
          LET q == IF inp = None THEN <<>> ELSE Strip(inp.v)
          IN /\ Len(shell.read) >= MaxLines => inp \in {None, Some(<<" ", "Quit", " ">>)}
             /\ IF inp = None \/ IsQuit(q)
                THEN /\ shell' = [shell EXCEPT !.read = Append(@, inp),
                                               !.pc = "cleanup", !.loop = "returned"]
                     /\ UNCHANGED queryVars
                ELSE IF q = <<>>
                THEN /\ shell' = [shell EXCEPT !.read = Append(@, inp)]
                     /\ UNCHANGED queryVars
                ELSE /\ shell' = [shell EXCEPT !.read = Append(@, inp),
                                               !.pc = "in_query", !.calls = @ + 1]
                     /\ query' = q
                     /\ pc' = "idle"
                     /\ ClearedQuery
    /\ UNCHANGED <<session, llm, catalog, wx>>

\* input() raises something other than EOFError: it leaves chat_loop.
InputRaises ==
    /\ shell.pc = "reading"
    /\ shell' = [shell EXCEPT !.pc = "cleanup", !.loop = "raised", !.raised = "InputError"]
    /\ UNCHANGED <<session, llm, catalog, queryVars, wx>>

\* The server's tool list changes while chat_loop waits for input.
CatalogChanges ==
    /\ shell.pc = "reading"
    /\ catalog' \in Catalogs \ {catalog}
    /\ UNCHANGED <<session, llm, shell, queryVars, wx>>

ShellReceiveCompletion ==
    \E message \in ShellCompletions :
        /\ turn_index > MaxShellTurns => OrElse(message.tool_calls, <<>>, <<>>) = <<>>
        /\ ReceiveCompletionCtl(message)
        /\ ReceiveCompletionData(message)

\* A mutant of ChatQueryDone: chat_loop has no except clause, a failure of
\* process_query leaves it.
ChatQueryDoneFailureEscapes ==
    /\ shell.pc = "in_query"
    /\ pc \in {"done", "failed"}
    /\ shell' = IF pc = "done"
                THEN [shell EXCEPT !.pc = "reading", !.shown = @ + 1,
                                   !.declared = Some(available_tools)]
                ELSE [shell EXCEPT !.pc = "cleanup", !.loop = "raised", !.raised = error]
    /\ query' = <<>>
    /\ pc' = "none"
    /\ ClearedQuery
    /\ UNCHANGED <<session, llm, catalog, wx>>

\* process_query is over: its response is logged, or the exception that
\* left it is caught and logged; the loop goes on to the next input().
ChatQueryDone ==
    /\ shell.pc = "in_query"
    /\ pc \in {"done", "failed"}
    /\ shell' = [shell EXCEPT !.pc = "reading",
                              !.shown = IF pc = "done" THEN @ + 1 ELSE @,
                              !.logged = IF pc = "failed" THEN @ + 1 ELSE @,
                              !.transcript = messages,
                              !.buffer = final_chunks,
                              !.ended = IF pc = "done" THEN "returned" ELSE error,
                              !.declared = IF turn_index > 0
                                           THEN Some(available_tools) ELSE @]
    /\ query' = <<>>
    /\ pc' = "none"
    /\ ClearedQuery
    /\ UNCHANGED <<session, llm, catalog, wx>>

\* The finally clause of the runner: cleanup runs; what was on its way out
\* goes on to the caller, unless closing the exit stack raises itself.
Cleanup ==
    /\ shell.pc = "cleanup"
    /\ \E closed \in BOOLEAN :
          shell' = [shell EXCEPT !.pc = "exited", !.cleanups = @ + 1,
                                 !.outcome = IF ~closed THEN "CleanupError"
                                             ELSE IF shell.raised # "none" THEN shell.raised
                                             ELSE "returned"]
    /\ UNCHANGED <<session, llm, catalog, queryVars, wx>>

ShellNext ==
    \/ ConnectSucceeds
    \/ ConnectFails
    \/ ChatRead
    \/ InputRaises
    \/ CatalogChanges
    \/ ProcessQuery
    \/ SendRequest
    \/ CompletionFails
    \/ ShellReceiveCompletion
    \/ ParseArguments
    \/ ToolRaises
    \/ ToolReturns
    \/ ChatQueryDone
    \/ Cleanup

ShellSpec == ShellInit /\ [][ShellNext]_vars

\* ----------------------------------------------------- weather forecast tools
\* JSON values of the weather provider; a dict is a sequence of key/value
\* pairs, a list a sequence of values.
Str(x) == [str |-> x]
Dct(d) == [dict |-> d]
Lst(l) == [list |-> l]
Null == [null |-> TRUE]

HasKey(d, k) == \E i \in 1..Len(d) : d[i][1] = k

\* d.get(k, default), and d[k] where the key is there
Get(d, k, default) ==
    IF HasKey(d, k) THEN d[CHOOSE i \in 1..Len(d) : d[i][1] = k][2] ELSE default

\* `not value` on a JSON value
Falsy(value) == value \in {Null, Str(""), Dct(<<>>), Lst(<<>>)}

ForecastTools == {"get_forecast_us", "get_forecast_can", "get_forecast"}

Coordinates == {<<39, -94>>, <<43, -79>>, <<0, 0>>}

PeriodNames ==
    <<"Tonight", "Monday", "Monday Night", "Tuesday", "Tuesday Night", "Wednesday",
      "Wednesday Night", "Thursday">>

\* One period of a provider forecast; temperatures come in Celsius.
Period(i) ==
    << <<"name", Str(PeriodNames[i])>>, <<"period", Str(PeriodNames[i])>>,
       <<"temperature", Str("20")>>, <<"temperatureUnit", Str("C")>>,
       <<"windSpeed", Str("5 mph")>>, <<"windDirection", Str("N")>>,
       <<"detailedForecast", Str("Clear")>>, <<"text_summary", Str("Clear")>> >>

Periods(n) == [i \in 1..n |-> Period(i)]

\* What make_nws_request returns for the points URL: None when the request
\* fails, otherwise the JSON document.
PointsResponses ==
    {None,
     Some(<<>>),
     Some(<< <<"status", Str("404")>> >>),
     Some(<< <<"properties", Dct(<<>>)>> >>),
     Some(<< <<"properties", Dct(<< <<"forecast", Null>> >>)>> >>),
     Some(<< <<"properties", Dct(<< <<"forecast", Str("forecast_url")>> >>)>> >>)}

\* What make_nws_request returns for the forecast URL.
ForecastResponses ==
    {None, Some(<<>>)} \cup
    {Some(<< <<"properties", Dct(<< <<"periods", Lst(Periods(n))>> >>)>> >>) :
        n \in 0..MaxPeriods}

\* What make_can_request returns: None when the update fails, otherwise
\* weather.daily_forecasts.
CanResponses == {None} \cup {Some(Periods(n)) : n \in 0..MaxPeriods}

\* periods[:5]
ShownPeriods == 5

FirstPeriods(periods) ==
    SubSeq(periods, 1, IF Len(periods) < ShownPeriods THEN Len(periods) ELSE ShownPeriods)

\* The WeatherData of one period of the US forecast.
WeatherDataUs(period) ==
    [period |-> Get(period, "name", Str("Unknown")).str,
     temperature |-> Get(period, "temperature", Null),
     temperature_unit |-> "C",
     detailed_forecast |-> Get(period, "detailedForecast", Str("")).str]

\* The WeatherData of one period of the Canadian forecast.
WeatherDataCan(period) ==
    [period |-> Get(period, "period", Null).str,
     temperature |-> Get(period, "temperature", Null),
     temperature_unit |-> "deg C",
     detailed_forecast |-> Get(period, "text_summary", Str("")).str]

\* The text of one period in the server's get_forecast.
ForecastText(period) ==
    <<"\n", Get(period, "name", Null).str, ":\n",
      "Temperature: ", Get(period, "temperature", Null).str, "deg",
      Get(period, "temperatureUnit", Null).str, "\n",
      "Wind: ", Get(period, "windSpeed", Null).str, " ",
      Get(period, "windDirection", Null).str, "\n",
      "Forecast: ", Get(period, "detailedForecast", Null).str, "\n">>

clientVars == <<session, llm, catalog, queryVars, shell>>

\* No client runs; a forecast tool is about to be called.
WeatherInit ==
    /\ wx = NoWeather
    /\ shell = NoShell
    /\ session = None
    /\ llm = "endpoint"
    /\ catalog = <<>>
    /\ query = <<>>
    /\ pc = "none"
    /\ error = "none"
    /\ result_text = <<>>
    /\ available_tools = <<>>
    /\ messages = <<>>
    /\ final_chunks = <<>>
    /\ turn_index = 0
    /\ tool_calls = <<>>
    /\ call_idx = 0
    /\ arguments = None
    /\ listed = 0
    /\ requests = <<>>
    /\ responses = <<>>
    /\ invoked = <<>>
    /\ returned = <<>>

Fetched(url, response) == Append(wx.fetched, [url |-> url, response |-> response])

Returns(fetched, result) ==
    [wx EXCEPT !.pc = "done", !.fetched = fetched, !.result = result]

Raises(fetched, exception) ==
    [wx EXCEPT !.pc = "raised", !.fetched = fetched, !.raised = exception]

\* A forecast tool is called with a latitude and a longitude and sends its
\* first request.
ForecastToolCalled ==
    /\ wx.pc = "idle"
    /\ \E tool \in ForecastTools, coords \in Coordinates :
          wx' = [wx EXCEPT !.tool = tool, !.coords = coords,
                           !.pc = IF tool = "get_forecast_can" THEN "can" ELSE "points"]
    /\ UNCHANGED clientVars

\* get_forecast_us after the points request: [] without points data or
\* without a forecast URL, otherwise the forecast request.
UsPointsAnswered ==
    /\ wx.pc = "points"
    /\ wx.tool = "get_forecast_us"
    /\ \E points_data \in PointsResponses :
          LET fetched == Fetched(<<"points", wx.coords>>, points_data)
              forecast_url ==
                  Get(Get(points_data.v, "properties", Dct(<<>>)).dict, "forecast", Null)
          IN wx' = IF points_data = None \/ points_data.v = <<>>
                   THEN Returns(fetched, <<>>)
                   ELSE IF Falsy(forecast_url)
                   THEN Returns(fetched, <<>>)
                   ELSE [wx EXCEPT !.pc = "forecast", !.fetched = fetched]
    /\ UNCHANGED clientVars

\* get_forecast_us after the forecast request: [] without forecast data,
\* otherwise the WeatherData of the first five periods.
UsForecastAnswered ==
    /\ wx.pc = "forecast"
    /\ wx.tool = "get_forecast_us"
    /\ \E forecast_data \in ForecastResponses :
          LET fetched == Fetched(<<"forecast_url">>, forecast_data)
              periods ==
                  Get(Get(forecast_data.v, "properties", Dct(<<>>)).dict, "periods",
                      Lst(<<>>)).list
              shown == FirstPeriods(periods)
          IN wx' = IF forecast_data = None \/ forecast_data.v = <<>>
                   THEN Returns(fetched, <<>>)
                   ELSE Returns(fetched, [i \in 1..Len(shown) |-> WeatherDataUs(shown[i])])
    /\ UNCHANGED clientVars

\* get_forecast_can: [] without forecast data, otherwise the WeatherData of
\* the first five periods.
CanAnswered ==
    /\ wx.pc = "can"
    /\ \E forecast_data \in CanResponses :
          LET fetched == Fetched(<<"env_canada", wx.coords>>, forecast_data)
              shown == FirstPeriods(forecast_data.v)
          IN wx' = IF forecast_data = None \/ forecast_data.v = <<>>
                   THEN Returns(fetched, <<>>)
                   ELSE Returns(fetched, [i \in 1..Len(shown) |-> WeatherDataCan(shown[i])])
    /\ UNCHANGED clientVars

\* The server's get_forecast after the points request: a message without
\* points data; points_data["properties"]["forecast"] raises KeyError when
\* a key is missing; otherwise the forecast request.
ServerPointsAnswered ==
    /\ wx.pc = "points"
    /\ wx.tool = "get_forecast"
    /\ \E points_data \in PointsResponses :
          LET fetched == Fetched(<<"points", wx.coords>>, points_data)
          IN wx' = IF points_data = None \/ points_data.v = <<>>
                   THEN Returns(fetched,
                                <<"Unable to fetch forecast data for this location.">>)
                   ELSE IF ~HasKey(points_data.v, "properties")
                   THEN Raises(fetched, "KeyError")
                   ELSE IF ~HasKey(Get(points_data.v, "properties", Null).dict, "forecast")
                   THEN Raises(fetched, "KeyError")
                   ELSE [wx EXCEPT !.pc = "forecast", !.fetched = fetched]
    /\ UNCHANGED clientVars

\* The URL the server's get_forecast took from the points response.
ServerForecastUrl ==
    Get(Get(wx.fetched[1].response.v, "properties", Null).dict, "forecast", Null)

\* The server's get_forecast after the forecast request (a request for a
\* URL that is not a string fails): a message without forecast data,
\* otherwise the texts of the first five periods, joined.
ServerForecastAnswered ==
    /\ wx.pc = "forecast"
    /\ wx.tool = "get_forecast"
    /\ \E forecast_data \in ForecastResponses :
          LET fetched == Fetched(<<"forecast_url">>, forecast_data)
          IN /\ ServerForecastUrl = Null => forecast_data = None
             /\ wx' = IF forecast_data = None \/ forecast_data.v = <<>>
                      THEN Returns(fetched, <<"Unable to fetch detailed forecast.">>)
                      ELSE LET periods ==
                                   Get(Get(forecast_data.v, "properties", Null).dict,
                                       "periods", Null).list
                               shown == FirstPeriods(periods)
                           IN Returns(fetched,
                                      Join(<<"\n---\n">>,
                                           [i \in 1..Len(shown) |-> ForecastText(shown[i])]))
    /\ UNCHANGED clientVars

WeatherNext ==
    \/ ForecastToolCalled
    \/ UsPointsAnswered
    \/ UsForecastAnswered
    \/ CanAnswered
    \/ ServerPointsAnswered
    \/ ServerForecastAnswered

WeatherSpec == WeatherInit /\ [][WeatherNext]_vars

\* ------------------------------------------------------- catalog adapter
\* process_query up to its first completion request, over tool lists with
\* every kind of input schema.
AdapterInit ==
    /\ shell = NoShell
    /\ wx = NoWeather
    /\ session \in {None, Some("session")}
    /\ llm = "endpoint"
    /\ catalog \in AdapterCatalogs
    /\ query \in Queries
    /\ pc = "idle"
    /\ error = "none"
    /\ result_text = <<>>
    /\ available_tools = <<>>
    /\ messages = <<>>
    /\ final_chunks = <<>>
    /\ turn_index = 0
    /\ tool_calls = <<>>
    /\ call_idx = 0
    /\ arguments = None
    /\ listed = 0
    /\ requests = <<>>
    /\ responses = <<>>
    /\ invoked = <<>>
    /\ returned = <<>>

AdapterNext == ProcessQuery \/ SendRequest

AdapterSpec == AdapterInit /\ [][AdapterNext]_vars

LiveSendRequest == SendRequestCtl /\ UNCHANGED dataVars

LiveReceiveCompletion ==
    \E message \in Completions : ReceiveCompletionCtl(message) /\ UNCHANGED dataVars

LiveParseArguments == ParseArgumentsCtl /\ UNCHANGED dataVars

LiveToolReturns == ToolReturnsCtl /\ UNCHANGED dataVars

LiveNext ==
    \/ ProcessQuery
    \/ LiveSendRequest
    \/ CompletionFails
    \/ LiveReceiveCompletion
    \/ LiveParseArguments
    \/ ToolRaises
    \/ LiveToolReturns

\* The thread of process_query always takes its next step, and the endpoint
\* and the session always answer (with a result or an error).
LiveSpec == Init /\ [][LiveNext]_vars /\ WF_vars(LiveNext)

\* ------------------------------------------------------------------ claims
\* What the observers say about a turn.
CallsOf(message) == IF message.tool_calls = None THEN <<>> ELSE message.tool_calls.v

InTurn(t, e) == e.turn = t

InvokedIn(t) == SelectSeq(invoked, LAMBDA e : InTurn(t, e))

LastTurn == Len(responses)

Malformed(tool_call) == tool_call.function.arguments = Some("{not json")

MalformedAt(tcs) == {i \in 1..Len(tcs) : Malformed(tcs[i])}

FirstMalformed(tcs) == CHOOSE i \in MalformedAt(tcs) : \A j \in MalformedAt(tcs) : i <= j

ToolResultsWithId(msgs, id) ==
    {j \in 1..Len(msgs) : msgs[j].role = "tool" /\ msgs[j].tool_call_id = id}

CallsWithId(msgs, id) ==
    {<<p, i>> \in (1..Len(msgs)) \X (1..3) :
        /\ msgs[p].role = "assistant"
        /\ i <= Len(msgs[p].tool_calls)
        /\ msgs[p].tool_calls[i].id = id}

CallIds == {"call_a", "call_b", "call_c"}

AllSpace(s) == \A i \in 1..Len(s) : IsSpace(s[i])

\* r is s without its leading and trailing whitespace
IsTrimOf(r, s) ==
    \E i \in 0..Len(s), j \in 0..Len(s) :
        /\ i + j <= Len(s)
        /\ r = SubSeq(s, i + 1, Len(s) - j)
        /\ AllSpace(SubSeq(s, 1, i))
        /\ AllSpace(SubSeq(s, Len(s) - j + 1, Len(s)))
        /\ r # <<>> => ~IsSpace(r[1]) /\ ~IsSpace(r[Len(r)])

\* C1: whenever a completion request follows a turn in which the endpoint
\* listed N >= 1 tool calls, the session was invoked exactly N times in that
\* turn, for the listed tools in the listed order, and the transcript of that
\* request is the transcript of the previous request plus the assistant
\* message plus exactly N tool-result messages, answering the calls in order.
C1_ToolCallsInvokedAndAnsweredInOrder ==
    \A k \in 2..Len(requests) :
        LET tcs == CallsOf(responses[k - 1])
            N == Len(tcs)
            inv == InvokedIn(k - 1)
            prev == requests[k - 1].messages
            cur == requests[k].messages
        IN /\ N >= 1
           /\ Len(inv) = N
           /\ \A i \in 1..N : inv[i].name = tcs[i].function.name
           /\ Len(cur) = Len(prev) + 1 + N
           /\ SubSeq(cur, 1, Len(prev)) = prev
           /\ cur[Len(prev) + 1].role = "assistant"
           /\ \A i \in 1..N :
                 /\ cur[Len(prev) + 1 + i].role = "tool"
                 /\ cur[Len(prev) + 1 + i].tool_call_id = tcs[i].id
                 /\ cur[Len(prev) + 1 + i].name = tcs[i].function.name

\* C1 witness: a second request was sent after a turn of two different calls.
C1_Witness ==
    /\ Len(requests) >= 2
    /\ CallsOf(responses[1]) = <<CallA, CallB>>
    /\ Len(InvokedIn(1)) = 2

\* C2 as claimed: in the transcript of every request sent, every tool call of
\* an assistant message has exactly one tool-result message with its id.
C2_ExactlyOneResultPerCallId ==
    \A k \in 1..Len(requests) :
        LET msgs == requests[k].messages
        IN \A p \in 1..Len(msgs) :
              msgs[p].role = "assistant" =>
                  \A i \in 1..Len(msgs[p].tool_calls) :
                      Cardinality(ToolResultsWithId(msgs, msgs[p].tool_calls[i].id)) = 1

\* C2 amended: in the transcript of every request sent, the i-th tool call of
\* an assistant message is answered by the i-th message after it, a tool
\* result with that call's id; there is no other tool result, so an id has as
\* many results as calls (exactly one when the endpoint used the id once).
C2_ResultsMatchCallsOneToOne ==
    \A k \in 1..Len(requests) :
        LET msgs == requests[k].messages
        IN /\ \A p \in 1..Len(msgs) :
                 msgs[p].role = "assistant" =>
                     /\ p + Len(msgs[p].tool_calls) <= Len(msgs)
                     /\ \A i \in 1..Len(msgs[p].tool_calls) :
                           /\ msgs[p + i].role = "tool"
                           /\ msgs[p + i].tool_call_id = msgs[p].tool_calls[i].id
           /\ \A id \in CallIds \cup {msgs[j].tool_call_id : j \in {q \in 1..Len(msgs) : msgs[q].role = "tool"}} :
                 Cardinality(ToolResultsWithId(msgs, id)) = Cardinality(CallsWithId(msgs, id))

\* C2 witness: a request whose transcript answers two calls of one id.
C2_Witness ==
    \E k \in 1..Len(requests) :
        Cardinality(ToolResultsWithId(requests[k].messages, "call_a")) = 2

\* C3 as claimed: a call_tool that ends, by returning or by raising, leaves a
\* tool-result message for the call in the transcript, and the loop goes on
\* (to the next call or the next turn).
C3_ToolFailureRecordedAndLoopContinues ==
    [][(pc = "calling" /\ pc' # "calling") =>
          /\ pc' \in {"tool_loop", "request"}
          /\ Len(messages') = Len(messages) + 1
          /\ messages'[Len(messages')].role = "tool"
          /\ messages'[Len(messages')].tool_call_id = tool_calls[call_idx].id]_vars

\* C4 as claimed: process_query ends, whatever the endpoint answers.
C4_ProcessQueryTerminates == <>(pc \in {"done", "failed"})

\* C5: once the endpoint has answered, process_query has returned exactly
\* when the last answer had no tool calls; it returns in the step that takes
\* such an answer, with as many requests sent as answers and no invocation in
\* that turn, and then does nothing more; when the last call of a turn
\* returns the loop is at its top, where its only step is to send a request.
C5_LoopEndsExactlyOnNoToolCalls ==
    /\ [](LastTurn > 0 =>
            /\ pc = "done" <=> CallsOf(responses[LastTurn]) = <<>>
            /\ pc = "done" => Len(requests) = LastTurn /\ InvokedIn(LastTurn) = <<>>)
    /\ [][/\ pc = "done" => pc' = "done" /\ requests' = requests /\ invoked' = invoked
          /\ (pc = "calling" /\ call_idx = Len(tool_calls) /\ pc' # "failed") =>
                 pc' = "request"
          /\ pc = "request" => pc' = "awaiting" /\ Len(requests') = Len(requests) + 1]_vars

\* C5 witness: a query that returned after a turn with tool calls.
C5_Witness == pc = "done" /\ LastTurn = 2 /\ Len(invoked) = 2

\* C6: when the first answer has no tool calls, process_query returns that
\* answer's content without its leading and trailing whitespace (nothing for
\* missing or blank content), after one request and no invocation.
C6_TextOnlyAnswerReturnedTrimmed ==
    (pc = "done" /\ LastTurn = 1) =>
        /\ IsTrimOf(result_text,
                    IF responses[1].content = None THEN <<>> ELSE responses[1].content.v)
        /\ Len(requests) = 1
        /\ invoked = <<>>

\* C6 witness: content " a " came back as "a".
C6_Witness ==
    /\ pc = "done"
    /\ LastTurn = 1
    /\ responses[1].content = Some(<<" ", "a", " ">>)
    /\ result_text = <<"a">>

\* C7 as claimed: when process_query fails on arguments that are not JSON, no
\* tool of that turn was invoked.
C7_NoToolOfTheTurnInvoked ==
    error = "ValueError" => InvokedIn(LastTurn) = <<>>

\* C7 amended: a query with a malformed call in a turn never returns and
\* sends no further request; the malformed call and the calls after it are
\* never invoked, the calls before it are invoked in order, and when the
\* argument-parsing error is raised exactly the calls before it were invoked;
\* such a turn fails with that error unless an earlier call_tool raised.
C7_MalformedCallStopsTheTurnThere ==
    /\ \A t \in 1..LastTurn :
          LET tcs == CallsOf(responses[t])
          IN MalformedAt(tcs) # {} =>
                /\ t = LastTurn
                /\ pc # "done"
                /\ Len(requests) = t
                /\ Len(InvokedIn(t)) < FirstMalformed(tcs)
                /\ \A i \in 1..Len(InvokedIn(t)) :
                      InvokedIn(t)[i].name = tcs[i].function.name
                /\ error = "ValueError" => Len(InvokedIn(t)) = FirstMalformed(tcs) - 1
                /\ pc = "failed" => error \in {"ValueError", "ToolSessionError"}
    /\ error = "ValueError" =>
          pc = "failed" /\ LastTurn > 0 /\ MalformedAt(CallsOf(responses[LastTurn])) # {}

\* C7 witness: the parsing error came after an earlier call of the turn ran.
C7_Witness ==
    /\ error = "ValueError"
    /\ CallsOf(responses[LastTurn]) = <<CallA, CallBad>>
    /\ Len(InvokedIn(LastTurn)) = 1

\* C8: without a session process_query fails with a RuntimeError and has
\* listed no tools, sent no request and invoked no tool.
C8_NoSessionFailsFirst ==
    session = None =>
        /\ pc \in {"idle", "failed"}
        /\ pc = "failed" => error = "RuntimeError"
        /\ listed = 0
        /\ requests = <<>>
        /\ invoked = <<>>

\* C8 witness: process_query was called without a session.
C8_Witness == session = None /\ pc = "failed" /\ error = "RuntimeError"

\* Where the assistant message of turn t is in the transcript: after the
\* user message and the complete earlier turns.
RECURSIVE AssistantAt(_)
AssistantAt(t) == IF t = 1 THEN 2 ELSE AssistantAt(t - 1) + 1 + Len(CallsOf(responses[t - 1]))

\* The tool-result messages the transcript holds for turn t so far.
AnsweredIn(t) ==
    IF t < LastTurn THEN Len(CallsOf(responses[t])) ELSE Len(messages) - AssistantAt(t)

\* C9: for every turn with tool calls the transcript holds an assistant
\* message with each call's id, name and arguments string as the endpoint
\* gave them, in its order, and the k-th tool-result message after it carries
\* the id and the name of the k-th call.
C9_IdsAndNamesRoundTrip ==
    \A t \in 1..LastTurn :
        LET tcs == CallsOf(responses[t])
            at == AssistantAt(t)
        IN tcs # <<>> =>
              /\ at <= Len(messages)
              /\ messages[at].role = "assistant"
              /\ Len(messages[at].tool_calls) = Len(tcs)
              /\ \A i \in 1..Len(tcs) :
                    /\ messages[at].tool_calls[i].id = tcs[i].id
                    /\ messages[at].tool_calls[i].function.name = tcs[i].function.name
                    /\ messages[at].tool_calls[i].function.arguments
                           = tcs[i].function.arguments
              /\ AnsweredIn(t) \in 0..Len(tcs)
              /\ \A i \in 1..AnsweredIn(t) :
                    /\ messages[at + i].role = "tool"
                    /\ messages[at + i].tool_call_id = tcs[i].id
                    /\ messages[at + i].name = tcs[i].function.name

\* C9 witness: both calls of a turn of two different calls are answered.
C9_Witness ==
    /\ LastTurn = 1
    /\ CallsOf(responses[1]) = <<CallA, CallB>>
    /\ Len(messages) = 4
    /\ messages[4].tool_call_id = "call_b"

\* C10: every request sent carries tool_choice, and tools, exactly when the
\* declaration list is not empty, which is when the session listed a tool.
C10_ToolChoiceOnlyWithDeclarations ==
    \A k \in 1..Len(requests) :
        /\ "tool_choice" \in DOMAIN requests[k] <=> available_tools # <<>>
        /\ "tools" \in DOMAIN requests[k] <=> available_tools # <<>>
        /\ "tools" \in DOMAIN requests[k] => requests[k].tools = available_tools
        /\ Len(available_tools) = Len(catalog)
        /\ catalog = <<>> => "tool_choice" \notin DOMAIN requests[k]

\* C10 witness: two requests were sent for a session that lists no tool.
C10_Witness ==
    /\ catalog = <<>>
    /\ Len(requests) = 2
    /\ DOMAIN requests[2] = {"model", "messages"}

WithRole(msgs, role) == {p \in 1..Len(msgs) : msgs[p].role = role}

\* External calls started and not yet answered, as the observers saw them.
OpenCompletions == Len(requests) - Len(responses)

OpenCalls == Len(invoked) - Cardinality(WithRole(messages, "tool"))

\* C19: at most one completion request or tool invocation is open at a time;
\* while a tool call is in flight every earlier invocation has its
\* tool-result message in the transcript and no completion request is open;
\* while a completion request is in flight no invocation is open and every
\* tool call of the previous turn has been invoked and answered.
C19_OneExternalCallAtATime ==
    /\ OpenCompletions \in {0, 1}
    /\ OpenCalls \in {0, 1}
    /\ OpenCompletions + OpenCalls <= 1
    /\ pc = "calling" => OpenCalls = 1 /\ OpenCompletions = 0
    /\ pc = "tool_loop" => OpenCalls = 0 /\ OpenCompletions = 0
    /\ pc = "awaiting" =>
          /\ OpenCompletions = 1
          /\ OpenCalls = 0
          /\ LastTurn > 0 =>
                Len(InvokedIn(LastTurn)) = Len(CallsOf(responses[LastTurn]))

\* C19 witness: the second call of a turn is in flight, the first answered.
C19_Witness ==
    /\ pc = "calling"
    /\ call_idx = 2
    /\ Len(invoked) = 2
    /\ Cardinality(WithRole(messages, "tool")) = 1

ToolTurns == {t \in 1..LastTurn : CallsOf(responses[t]) # <<>>}

\* C20 as claimed: the transcript is empty before process_query starts, holds
\* one user message, first, from then on, and holds one assistant message for
\* every completion received.
C20_OneAssistantMessagePerTurn ==
    /\ pc = "idle" => messages = <<>>
    /\ WithRole(messages, "user") = IF messages = <<>> THEN {} ELSE {1}
    /\ Cardinality(WithRole(messages, "assistant")) = LastTurn

\* C20 amended: the transcript is empty before process_query starts and holds
\* one user message, first, from then on, which is all the first request
\* carries; every completion with tool calls adds one assistant message,
\* followed by one tool-result message per call executed, and a completion
\* without tool calls (the last turn) adds nothing.
C20_OneAssistantMessagePerToolTurn ==
    /\ pc = "idle" => messages = <<>>
    /\ WithRole(messages, "user") = IF messages = <<>> THEN {} ELSE {1}
    /\ messages # <<>> => messages[1] = [role |-> "user", content |-> query]
    /\ requests # <<>> => requests[1].messages = <<[role |-> "user", content |-> query]>>
    /\ Cardinality(WithRole(messages, "assistant")) = Cardinality(ToolTurns)
    /\ Cardinality(WithRole(messages, "tool")) <= Len(invoked)
    /\ \A p \in WithRole(messages, "tool") :
          \E a \in WithRole(messages, "assistant") :
              /\ a < p
              /\ p - a <= Len(messages[a].tool_calls)
              /\ \A q \in (a + 1)..p : messages[q].role = "tool"
    /\ (pc = "done" /\ LastTurn > 0) =>
          Len(messages) = 1 + Cardinality(ToolTurns) + Len(invoked)

\* C20 witness: a query returned after two completions, with one assistant
\* message in its transcript.
C20_Witness ==
    /\ pc = "done"
    /\ LastTurn = 2
    /\ Cardinality(WithRole(messages, "assistant")) = 1
    /\ Cardinality(WithRole(messages, "tool")) = 2

\* What a present input schema holds, as a dict; an object that offers no way
\* to be read holds nothing.
ValidObjectSchema(schema) ==
    /\ schema.v.kind \in {"dict", "model_dump", "dict_method", "attrs"}
    /\ "type" \in DOMAIN schema.v.value
    /\ schema.v.value.type = "object"

\* C12: once the declarations are built there is one per listed tool, and a
\* tool whose input schema is present but is not a valid object schema is
\* declared with the empty-parameter fallback.
C12_InvalidSchemaReplacedByFallback ==
    pc \in {"request", "awaiting"} =>
        /\ Len(available_tools) = Len(catalog)
        /\ \A i \in 1..Len(catalog) :
              (catalog[i].inputSchema # None /\ ~ValidObjectSchema(catalog[i].inputSchema))
                  => available_tools[i].function.parameters = EmptyParameters

\* C13: once the declarations are built there is one per listed tool, in
\* catalog order, the requests carry them, and a tool whose input schema is
\* missing is declared with parameters {type: "object", properties: {}}.
C13_MissingSchemaDeclaredWithFallback ==
    pc \in {"request", "awaiting"} =>
        /\ Len(available_tools) = Len(catalog)
        /\ \A i \in 1..Len(catalog) :
              /\ available_tools[i].type = "function"
              /\ available_tools[i].function.name = catalog[i].name
              /\ catalog[i].inputSchema = None =>
                    available_tools[i].function.parameters =
                        [type |-> "object", properties |-> <<>>]
        /\ \A k \in 1..Len(requests) :
              catalog # <<>> => requests[k].tools = available_tools

\* C13 witness: a request went out for a list of two tools, the second of
\* them without an input schema.
C13_Witness ==
    /\ pc = "awaiting"
    /\ Len(catalog) = 2
    /\ catalog[1].inputSchema # None
    /\ catalog[2].inputSchema = None
    /\ requests # <<>>
    /\ requests[1].tools[2].function.parameters = EmptyParameters

DeclaredNames(tools) == [i \in 1..Len(tools) |-> tools[i].function.name]

CatalogNames == [i \in 1..Len(catalog) |-> catalog[i].name]

\* C11: a query lists the tools once, before its first request; each of its
\* requests carries the declarations of the tools the session has for this
\* query (none, and no tools entry, for an empty catalog), the same on every
\* request, whatever an earlier query of the shell declared.
C11_ToolsListedOncePerQuery ==
    /\ listed <= 1
    /\ requests # <<>> => listed = 1
    /\ \A k \in 1..Len(requests) :
          /\ ("tools" \in DOMAIN requests[k]) = (catalog # <<>>)
          /\ catalog # <<>> =>
                /\ DeclaredNames(requests[k].tools) = CatalogNames
                /\ requests[k].tools = requests[1].tools

\* C11 witness: the second request of the second query of a shell carries
\* declarations, the query before it had an empty declaration list.
C11_Witness ==
    /\ shell.calls = 2
    /\ shell.declared = Some(<<>>)
    /\ Len(requests) = 2
    /\ catalog # <<>>
    /\ DeclaredNames(requests[2].tools) = <<"add_numbers", "get_forecast">>

\* C15: every process_query call of chat_loop that is over was logged, as a
\* response or as an exception, and the loop went on; chat_loop is never
\* left by an exception of process_query.
C15_FailedQueryLoggedAndLoopContinues ==
    /\ shell.calls = shell.logged + shell.shown + (IF shell.pc = "in_query" THEN 1 ELSE 0)
    /\ shell.loop = "raised" => shell.raised = "InputError"
    /\ (shell.pc = "reading" /\ shell.calls > 0) => shell.loop = "none"
    /\ shell.raised \in {"none", "ConnectError", "InputError"}

\* C15 witness: two queries in a row failed and chat_loop is reading again.
C15_Witness ==
    /\ shell.pc = "reading"
    /\ shell.logged = 2
    /\ shell.shown = 0
    /\ shell.loop = "none"

\* The inputs that end chat_loop and the lines it skips, as the spec lists
\* them: end of input, quit or exit in any case with blanks around; lines of
\* blanks.
EndingInputs == {None, Some(<<" ", "Quit", " ">>), Some(<<"exit">>)}

SkippedInputs == {Some(<<" ">>)}

\* C16: chat_loop returns exactly after reading end of input or a quit/exit
\* line, reads nothing after one, and has called process_query once for
\* every other line that is not blank, with the line trimmed.
C16_LoopEndsOnQuitExitOrEndOfInput ==
    LET n == Len(shell.read)
    IN /\ \A i \in 1..(n - 1) : shell.read[i] \notin EndingInputs
       /\ (shell.loop = "returned") = (n > 0 /\ shell.read[n] \in EndingInputs)
       /\ shell.calls =
             Cardinality({i \in 1..n : shell.read[i] \notin EndingInputs \cup SkippedInputs})
       /\ shell.pc = "in_query" =>
             /\ shell.read[n] \notin EndingInputs \cup SkippedInputs
             /\ query \in {<<"hi">>, <<"quit", " ", "now">>}
       /\ (shell.entered /\ shell.loop = "none") => shell.pc \in {"reading", "in_query"}

\* C16 witness: a blank line, a query and a quit line were read, in this
\* order; process_query was called once and chat_loop returned.
C16_Witness ==
    /\ shell.read = <<Some(<<" ">>), Some(<<"quit", " ", "now">>), Some(<<" ", "Quit", " ">>)>>
    /\ shell.calls = 1
    /\ shell.loop = "returned"

\* C17: the runner connects once and cleans up once, on its way out,
\* however it ends; after a failed connect chat_loop is not entered, nothing
\* is read or processed, and the caller gets an error.
C17_ConnectFailureSurfacedCleanupOnce ==
    /\ shell.connects <= 1
    /\ shell.cleanups = (IF shell.pc = "exited" THEN 1 ELSE 0)
    /\ shell.raised = "ConnectError" =>
          /\ ~shell.entered
          /\ shell.read = <<>>
          /\ shell.calls = 0
          /\ shell.connects = 1
          /\ shell.pc \in {"cleanup", "exited"}
          /\ shell.pc = "exited" => shell.outcome \in {"ConnectError", "CleanupError"}
    /\ shell.pc = "exited" =>
          /\ shell.outcome # "none"
          /\ shell.outcome = "returned" => (shell.loop = "returned" /\ shell.raised = "none")
    /\ shell.pc # "exited" => shell.outcome = "none"

\* C17 witness: the connect failed, cleanup ran and the caller got the error.
C17_Witness ==
    /\ shell.pc = "exited"
    /\ shell.raised = "ConnectError"
    /\ shell.cleanups = 1
    /\ shell.outcome = "ConnectError"

\* The points responses without a forecast URL.
PointsWithoutForecastUrl ==
    {Some(<< <<"status", Str("404")>> >>),
     Some(<< <<"properties", Dct(<<>>)>> >>),
     Some(<< <<"properties", Dct(<< <<"forecast", Null>> >>)>> >>)}

\* The provider yielded nothing: a request failed, returned no data, or
\* the points response came without a forecast URL.
UpstreamYieldedNothing ==
    \E i \in 1..Len(wx.fetched) :
        \/ wx.fetched[i].response \in {None, Some(<<>>)}
        \/ wx.fetched[i].response \in PointsWithoutForecastUrl

\* C18: a forecast tool that is over after the provider yielded nothing
\* returned, and returned an empty result.
C18_NothingUpstreamGivesEmptyResult ==
    (wx.pc \in {"done", "raised"} /\ UpstreamYieldedNothing) =>
        (wx.pc = "done" /\ wx.result = <<>>)

\* C21 as claimed: every invocation of a turn answers a call whose
\* arguments string is there and not empty, and receives what json.loads
\* makes of that string.
C21_InvokedWithTheParsedArgumentsOnly ==
    \A t \in 1..LastTurn :
        LET tcs == CallsOf(responses[t])
            inv == InvokedIn(t)
        IN \A i \in 1..Len(inv) :
              /\ tcs[i].function.arguments \notin {None, Some("")}
              /\ inv[i].arguments = JsonLoads(tcs[i].function.arguments.v)

\* JSON that is not an object, among the argument strings drawn.
NonObjectJson(tool_call) == tool_call.function.arguments = Some("[1]")

\* C22 as claimed: the session is invoked with objects only, and a call
\* whose arguments are JSON but no object is never invoked: the query fails
\* and returns nothing.
C22_InvokedWithObjectsOnly ==
    /\ \A i \in 1..Len(invoked) : invoked[i].arguments.type = "dict"
    /\ \A t \in 1..LastTurn :
          LET tcs == CallsOf(responses[t])
          IN \A k \in 1..Len(tcs) :
                NonObjectJson(tcs[k]) => (Len(InvokedIn(t)) < k /\ pc # "done")

\* The argument strings json.loads rejects, among those drawn.
Unparseable(tool_call) == tool_call.function.arguments \in {Some(""), Some("{not json")}

\* C23 as claimed: with an unparseable arguments string at position k of a
\* turn, neither that call nor a later one of the turn is invoked or
\* answered, no further request is sent and the query does not return.
C23_UnparseableCallNeverInvoked ==
    \A t \in 1..LastTurn :
        LET tcs == CallsOf(responses[t])
        IN \A k \in 1..Len(tcs) :
              Unparseable(tcs[k]) =>
                  /\ Len(InvokedIn(t)) < k
                  /\ Len(requests) = t
                  /\ pc # "done"
                  /\ Cardinality(WithRole(messages, "tool")) <= Len(invoked)

\* What the output buffer owes to the invocations k..n: the summary of each
\* and, after it, its flattened output unless that is empty.
RECURSIVE CallEntries(_, _)
CallEntries(k, n) ==
    IF k > n THEN <<>>
    ELSE LET out == _flatten_tool_content(returned[k])
             summary == <<"[Tool ", invoked[k].name, " called with args ",
                          PyStr(invoked[k].arguments), "]">>
         IN <<summary>> \o (IF out # <<>> THEN <<out>> ELSE <<>>) \o CallEntries(k + 1, n)

\* What the output buffer owes to the turns 1..t.
RECURSIVE BufferUpTo(_)
BufferUpTo(t) ==
    IF t = 0 THEN <<>>
    ELSE LET said == IF responses[t].content = None THEN <<>>
                     ELSE Strip(responses[t].content.v)
             first == Len(SelectSeq(invoked, LAMBDA e : e.turn < t))
         IN BufferUpTo(t - 1) \o (IF said # <<>> THEN <<said>> ELSE <<>>)
                \o CallEntries(first + 1, first + Len(InvokedIn(t)))

Summaries(chunks) == {i \in 1..Len(chunks) : chunks[i][1] = "[Tool "}

\* C24: the output buffer never holds an empty entry and holds one summary
\* per invocation that returned; when process_query returns, the buffer is,
\* turn by turn, the trimmed content if any, then per invocation its summary
\* and its flattened output if any, and the result is its newline-join.
C24_ResultIsTheJoinedBuffer ==
    /\ \A i \in 1..Len(final_chunks) : final_chunks[i] # <<>>
    /\ Cardinality(Summaries(final_chunks)) = Len(returned)
    /\ pc = "done" =>
          /\ Len(returned) = Len(invoked)
          /\ final_chunks = BufferUpTo(LastTurn)
          /\ result_text = Join(<<"\n">>, final_chunks)

\* C24 witness: a query returned after a turn with text and two calls, the
\* first without output, the second with.
C24_Witness ==
    /\ pc = "done"
    /\ Len(invoked) = 2
    /\ _flatten_tool_content(returned[1]) = <<>>
    /\ _flatten_tool_content(returned[2]) # <<>>
    /\ Len(final_chunks) = 4
    /\ final_chunks[1] = <<"a">>

ToolMessages == SelectSeq(messages, LAMBDA m : m.role = "tool")

\* No content, or only text items with empty (or no) text.
EmptyAsClaimed(content) ==
    \/ content = None
    \/ \A i \in 1..Len(content.v) :
          /\ content.v[i].type = "text"
          /\ content.v[i].text \in {None, Some(<<>>)}

\* No content, or only text items without text, with empty text or with
\* whitespace only.
BlankContent(content) ==
    \/ content = None
    \/ \A i \in 1..Len(content.v) :
          /\ content.v[i].type = "text"
          /\ content.v[i].text = None \/ AllSpace(content.v[i].text.v)

\* The entries the output buffer holds besides the contents of the turns.
ToolEntries ==
    Len(final_chunks) -
        Cardinality({t \in 1..LastTurn :
                        responses[t].content # None /\ ~AllSpace(responses[t].content.v)})

\* C25 as claimed: a tool-result message is never empty, and it is the
\* literal "(no output)" exactly when the tool returned no content or only
\* text items with empty text.
C25_NoOutputExactlyForEmptyText ==
    /\ Len(ToolMessages) = Len(returned)
    /\ \A k \in 1..Len(returned) :
          /\ ToolMessages[k].content # <<>>
          /\ (ToolMessages[k].content = <<"(no output)">>) = EmptyAsClaimed(returned[k])

\* C25 amended: a tool-result message is never empty; it is the literal
\* "(no output)" exactly when the tool returned no content or only text
\* items without text, with empty text or with whitespace only, and the
\* flattened output otherwise; the output buffer holds one summary per
\* result and one output entry per result that is not blank.
C25_NoOutputExactlyForBlankOutput ==
    /\ Len(ToolMessages) = Len(returned)
    /\ \A k \in 1..Len(returned) :
          /\ ToolMessages[k].content # <<>>
          /\ (ToolMessages[k].content = <<"(no output)">>) = BlankContent(returned[k])
          /\ ~BlankContent(returned[k]) =>
                /\ IsTrimOf(ToolMessages[k].content, ToolMessages[k].content)
                /\ ToolMessages[k].content = _flatten_tool_content(returned[k])
    /\ ToolEntries =
          Len(returned) + Cardinality({k \in 1..Len(returned) : ~BlankContent(returned[k])})

\* C25 witness: a tool returned one text item of blanks and its result
\* message says "(no output)".
C25_Witness ==
    \E k \in 1..Len(returned) :
        /\ returned[k] = Some(<<TextItem(Some(<<" ">>))>>)
        /\ ToolMessages[k].content = <<"(no output)">>
        /\ Len(final_chunks) = 2

IsPrefix(p, q) == Len(p) <= Len(q) /\ SubSeq(q, 1, Len(p)) = p

\* C26: the first request carries the user message of the query and nothing
\* else; every later request carries the transcript of the request before
\* it, unchanged, followed by at least one more message; and the transcript
\* in hand always starts with what the last request carried.
C26_TranscriptOnlyGrows ==
    /\ requests # <<>> => requests[1].messages = <<[role |-> "user", content |-> query]>>
    /\ \A k \in 2..Len(requests) :
          /\ IsPrefix(requests[k - 1].messages, requests[k].messages)
          /\ Len(requests[k - 1].messages) < Len(requests[k].messages)
    /\ \A k \in 1..Len(requests) : IsPrefix(requests[k].messages, messages)

\* C26 witness: three requests, the third with two complete tool turns.
C26_Witness ==
    /\ Len(requests) = 3
    /\ Len(requests[2].messages) = 4
    /\ Len(requests[3].messages) = 6

\* C27: in chat_loop, whatever the queries before did, the first request of
\* a query carries its own user message and nothing else, and the text it
\* returns is the join of the entries its own turns and invocations made.
C27_NothingCrossesQueries ==
    shell.pc = "in_query" =>
        /\ requests # <<>> => requests[1].messages = <<[role |-> "user", content |-> query]>>
        /\ messages # <<>> => messages[1] = [role |-> "user", content |-> query]
        /\ Cardinality(WithRole(messages, "user")) <= 1
        /\ pc = "done" =>
              /\ final_chunks = BufferUpTo(LastTurn)
              /\ result_text = Join(<<"\n">>, BufferUpTo(LastTurn))

\* C27 witness: the second query of a shell returned; the first had failed
\* on argument parsing after a tool call, with text in its buffer.
C27_Witness ==
    /\ shell.pc = "in_query"
    /\ shell.calls = 2
    /\ shell.ended = "ValueError"
    /\ Len(shell.buffer) = 2
    /\ Len(shell.transcript) = 3
    /\ pc = "done"
    /\ Len(requests) = 1

\* C28: from the moment chat_loop enters process_query until it has its
\* answer or its exception, no step assigns the session handle or the
\* completion-endpoint handle, connects again or runs cleanup.
C28_HandlesUntouchedByProcessQuery ==
    [][shell.pc = "in_query" =>
          /\ session' = session
          /\ llm' = llm
          /\ shell'.connects = shell.connects
          /\ shell'.cleanups = shell.cleanups]_vars

\* C28 witness: a query failed in a tool call after its first turn, and the
\* handles are the ones the shell connected with.
C28_Witness ==
    /\ shell.pc = "in_query"
    /\ pc = "failed"
    /\ error = "ToolSessionError"
    /\ invoked # <<>>
    /\ session # None
    /\ llm = "endpoint"
    /\ shell.connects = 1
    /\ shell.cleanups = 0

====
